---- MODULE Spec2Model ----
(***************************************************************************)
(* A model of django_extensions/management/shells.py: get_app_name,        *)
(* import_items and import_objects.                                        *)
(*                                                                         *)
(* Representation.  A dotted Python name ("pk.sub") is the sequence of its *)
(* segments (<<"pk", "sub">>): str.split(".") maps the strings one-to-one  *)
(* onto the non-empty sequences of dot-free strings, so the empty string   *)
(* is <<"">>.  A mapping (dict) is a TLA+ function whose DOMAIN is its key *)
(* set.  An object is a record [mod, attr]: the module object of mod when  *)
(* attr = "", the attribute attr of module mod otherwise.                  *)
(***************************************************************************)
EXTENDS Integers, Sequences, FiniteSets, TLC

VARIABLES
    pc,                 \* position of the running call
    mod_name,           \* get_app_name: its argument
    app_name,           \* get_app_name: its return value
    import_directives,  \* import_items: its first argument
    quiet_load,         \* import_items / import_objects: the quiet flag
    idx,                \* import_items: number of directives consumed by the loop
    st,                 \* import_items: locals and interpreter state (see EmptySt)
    conf,               \* import_objects: options, settings and registries
    load_models,        \* import_objects: module -> model names
    imported_objects,   \* import_objects: the accumulated result
    imports,            \* import_objects: the last value returned by import_items
    models_to_import,   \* import_objects: display name -> candidate model paths
    resolved,           \* import_objects: the map handed to perform_automatic_imports
    sys,                \* import_objects: loaded modules and the output written so far
    phases              \* import_objects: what each phase bound, in the order they ran

appVars == <<mod_name, app_name>>

itemsVars == <<import_directives, idx, st>>

objVars == <<conf, load_models, imported_objects, imports, models_to_import, resolved,
             sys, phases>>

vars == <<pc, quiet_load, appVars, itemsVars, objVars>>

(***************************************************************************)
(* Bounds of the model.                                                    *)
(***************************************************************************)
MaxSegs == 5
MaxBatch == 2

(***************************************************************************)
(* Generic helpers.                                                        *)
(***************************************************************************)
Range(s) == {s[k] : k \in 1..Len(s)}

Reverse(s) == [k \in 1..Len(s) |-> s[Len(s) + 1 - k]]

\* list.index(x): the first position holding x (1-based here), 0 when absent
\* (Python raises ValueError).
Index(s, x) ==
    IF x \in Range(s)
    THEN CHOOSE k \in 1..Len(s) : s[k] = x /\ \A j \in 1..(k - 1) : s[j] # x
    ELSE 0

\* dict[k] = v
Put(d, k, v) == [x \in (DOMAIN d) \cup {k} |-> IF x = k THEN v ELSE d[x]]

EmptyDict == [x \in {} |-> 0]

(***************************************************************************)
(* get_app_name                                                            *)
(***************************************************************************)
MODELS_MODULE_NAME == "models"

\* A mutation of get_app_name: the parts are not reversed, so the first
\* "models" segment is found and the segment after it is taken.
get_app_name_unreversed(name) ==
    LET parts == name
        j == Index(parts, MODELS_MODULE_NAME)
    IN  IF j > 0
        THEN IF j + 1 <= Len(parts) THEN <<parts[j + 1]>> ELSE name
        ELSE IF Len(parts) >= 2 THEN <<parts[2]>> ELSE name

get_app_name(name) ==
    LET rparts == Reverse(name)
        j == Index(rparts, MODELS_MODULE_NAME)
    IN  IF j > 0
        THEN IF j + 1 <= Len(rparts) THEN <<rparts[j + 1]>> ELSE name
        ELSE IF Len(rparts) >= 2 THEN <<rparts[2]>> ELSE name

(***************************************************************************)
(* The importable world: the modules that exist, and the attributes each   *)
(* defines.  Every prefix of an existing module exists.  "pk" is a package *)
(* with a private attribute and a submodule; "lib" shares names with "pk", *)
(* with the models and with the framework imports; "shop", "blog" and      *)
(* "ext.shop" are applications; the "django" modules are those             *)
(* SHELL_PLUS_DJANGO_IMPORTS names.                                        *)
(***************************************************************************)
Modules ==
    { <<"pk">>, <<"pk", "sub">>, <<"lib">>,
      <<"shop">>, <<"shop", "models">>, <<"shop", "docs">>,
      <<"blog">>, <<"blog", "models">>,
      <<"ext">>, <<"ext", "shop">>, <<"ext", "shop", "models">>,
      <<"django">>, <<"django", "core">>, <<"django", "core", "cache">>,
      <<"django", "conf">>, <<"django", "contrib">>,
      <<"django", "contrib", "auth">>, <<"django", "db">>,
      <<"django", "db", "transaction">>, <<"django", "db", "models">>,
      <<"django", "utils">>, <<"django", "utils", "timezone">>,
      <<"django", "urls">> }

Attrs(m) ==
    CASE m = <<"pk">> -> {"x", "_p"}
      [] m = <<"pk", "sub">> -> {"y"}
      [] m = <<"lib">> -> {"x", "Item", "cache"}
      [] m = <<"shop", "models">> -> {"Item", "Order"}
      [] m = <<"shop", "docs">> -> {"Note"}
      [] m = <<"blog", "models">> -> {"Item", "Post"}
      [] m = <<"ext", "shop", "models">> -> {"Item", "Cart"}
      [] m = <<"django", "core", "cache">> -> {"cache"}
      [] m = <<"django", "conf">> -> {"settings"}
      [] m = <<"django", "contrib", "auth">> -> {"get_user_model"}
      [] m = <<"django", "db", "models">> ->
            {"Avg", "Case", "Count", "F", "Max", "Min", "Prefetch", "Q", "Sum",
             "When", "Exists", "OuterRef", "Subquery"}
      [] m = <<"django", "urls">> -> {"reverse"}
      [] OTHER -> {}

\* The names every module object carries besides its own (one stands for
\* __name__, __doc__, __file__, ...).
Dunder == {"__name__"}

ModObj(m) == [mod |-> m, attr |-> ""]

\* What a failed lookup has to offer: no object.
NoObj == [mod |-> <<>>, attr |-> "?"]

Prefixes(path) == {SubSeq(path, 1, k) : k \in 1..Len(path)}

\* importlib.import_module(path) / __import__(path): the parents are imported
\* first, so the existing prefixes are loaded even when the import fails with
\* ModuleNotFoundError (an ImportError).
ImportModule(path, loaded) ==
    [ok |-> path \in Modules,
     loaded |-> loaded \cup {p \in Prefixes(path) : Prefixes(p) \subseteq Modules}]

\* importlib._bootstrap._handle_fromlist: a name of the fromlist the module
\* does not have is tried as a submodule, a missing submodule is ignored.
HandleFromlist(m, names, loaded) ==
    loaded \cup {Append(m, n) : n \in {x \in names : x \notin Attrs(m) \cup Dunder
                                                   /\ Append(m, x) \in Modules}}

\* dir(module)
Dir(m, loaded) ==
    Attrs(m) \cup Dunder
      \cup {p[Len(p)] : p \in {q \in loaded : Len(q) = Len(m) + 1
                                              /\ SubSeq(q, 1, Len(m)) = m}}

\* getattr(module, n): NoObj stands for AttributeError.
Getattr(m, n, loaded) ==
    IF n \in Attrs(m) \cup Dunder THEN [mod |-> m, attr |-> n]
    ELSE IF Append(m, n) \in loaded THEN ModObj(Append(m, n))
    ELSE NoObj

(***************************************************************************)
(* Statement strings.  A statement string is the sequence of its tokens,   *)
(* each token a sequence of strings: a keyword or punctuation mark is a    *)
(* one-element sequence, a dotted name the sequence of its segments.       *)
(* ")" stands for text that is no Python, "pass" for a statement that is   *)
(* no import.                                                              *)
(***************************************************************************)
Keywords == {"import", "from", "as", ",", "*", ";", "pass", ")"}

Kw(w) == <<w>>

IsName(t) == Len(t) >= 1 /\ \A k \in 1..Len(t) : t[k] \notin Keywords /\ t[k] # ""

IsIdent(t) == IsName(t) /\ Len(t) = 1

\* The pieces of s between the occurrences of sep.
RECURSIVE SplitOn(_, _)
SplitOn(s, sep) ==
    IF sep \notin Range(s) THEN <<s>>
    ELSE LET k == Index(s, sep)
         IN  <<SubSeq(s, 1, k - 1)>> \o SplitOn(SubSeq(s, k + 1, Len(s)), sep)

\* ast.alias: name [as asname]; asname "" is None.
AliasOk(p, dotted) ==
    /\ Len(p) \in {1, 3}
    /\ IsName(p[1])
    /\ dotted \/ Len(p[1]) = 1
    /\ Len(p) = 3 => (p[2] = Kw("as") /\ IsIdent(p[3]))

AliasOf(p) == [name |-> p[1], asname |-> IF Len(p) = 3 THEN p[3][1] ELSE ""]

AliasesOk(ts, dotted) ==
    LET ps == SplitOn(ts, Kw(",")) IN \A k \in 1..Len(ps) : AliasOk(ps[k], dotted)

AliasesOf(ts) ==
    LET ps == SplitOn(ts, Kw(",")) IN [k \in 1..Len(ps) |-> AliasOf(ps[k])]

StmtOk(s) ==
    \/ s = <<Kw("pass")>>
    \/ Len(s) >= 2 /\ s[1] = Kw("import") /\ AliasesOk(Tail(s), TRUE)
    \/ /\ Len(s) >= 4 /\ s[1] = Kw("from") /\ IsName(s[2]) /\ s[3] = Kw("import")
       /\ \/ SubSeq(s, 4, Len(s)) = <<Kw("*")>>
          \/ AliasesOk(SubSeq(s, 4, Len(s)), FALSE)

\* ast.Import / ast.ImportFrom / any other statement
StmtOf(s) ==
    IF s = <<Kw("pass")>> THEN [type |-> "Other", module |-> <<>>, names |-> <<>>]
    ELSE IF s[1] = Kw("import")
    THEN [type |-> "Import", module |-> <<>>, names |-> AliasesOf(Tail(s))]
    ELSE [type |-> "ImportFrom", module |-> s[2],
          names |-> IF SubSeq(s, 4, Len(s)) = <<Kw("*")>>
                    THEN <<[name |-> <<"*">>, asname |-> ""]>>
                    ELSE AliasesOf(SubSeq(s, 4, Len(s)))]

\* The statements of a source line; a trailing ";" is allowed.
Statements(toks) ==
    LET ps == SplitOn(toks, Kw(";"))
    IN  IF Len(ps) > 1 /\ ps[Len(ps)] = <<>> THEN SubSeq(ps, 1, Len(ps) - 1) ELSE ps

\* ast.parse(directive): ok is FALSE for a SyntaxError.
Parse(toks) ==
    LET ss == Statements(toks)
        ok == \A k \in 1..Len(ss) : StmtOk(ss[k])
    IN  [ok |-> ok, body |-> IF ok THEN [k \in 1..Len(ss) |-> StmtOf(ss[k])] ELSE <<>>]

\* directive.startswith(("from ", "import ")), on the stripped string
StartsWithImport(toks) ==
    Len(toks) >= 2 /\ toks[1] \in {Kw("from"), Kw("import")}

(***************************************************************************)
(* import_items.                                                           *)
(*                                                                         *)
(* A directive is a record [kind, toks, mod, names]:                       *)
(*   "str"           a string, toks its tokens after strip()               *)
(*   "pair_names"    (mod, (name, ...)): a 2-tuple, names a tuple of str   *)
(*   "pair_name"     (mod, name): a 2-tuple, names = <<name>>              *)
(*   "pair_badmod"   a 2-tuple whose first item is no string               *)
(*   "pair_badnames" a 2-tuple whose second item is no string or tuple     *)
(*   "scalar"        neither a string nor a sequence (5, None)             *)
(*   "tuple1", "tuple3"  a tuple of one, of three items                    *)
(* The state of a call is a record [objs, out, loaded, node, exc]:         *)
(* imported_objects, the lines printed, the interpreter's loaded modules,  *)
(* the local variable node (bound or not) and the exception in flight.     *)
(* A printed line is [kind, i]: an "echo" of directive i, an "error"       *)
(* about it, or the "hint" of line 140.                                    *)
(***************************************************************************)
Line(kind, i) == [kind |-> kind, i |-> i]

Unbound == [bound |-> FALSE, body |-> <<>>]

EmptySt(loaded) ==
    [objs |-> EmptyDict, out |-> <<>>, loaded |-> loaded, node |-> Unbound,
     exc |-> "none"]

Say(s, q, kind, i) == IF q THEN s ELSE [s EXCEPT !.out = Append(@, Line(kind, i))]

\* lines 244-246: the handler of the directive's try block.  The message
\* is built with "%r" % directive, which raises TypeError for a 2-tuple.
HandleImportError(s, d, i, q) ==
    IF s.exc # "ImportError" THEN s
    ELSE IF q THEN [s EXCEPT !.exc = "none"]
    ELSE IF d.kind = "str"
    THEN [s EXCEPT !.exc = "none", !.out = Append(@, Line("error", i))]
    ELSE [s EXCEPT !.exc = "TypeError"]

\* A mutation of ExecImportAlias: the alias is bound to what __import__
\* returns, the top-level package, instead of the module named.
ExecImportAliasTopLevel(s, a) ==
    LET r == ImportModule(a.name, s.loaded)
    IN  IF ~r.ok THEN [s EXCEPT !.loaded = r.loaded, !.exc = "ImportError"]
        ELSE [s EXCEPT !.loaded = r.loaded,
                       !.objs = Put(@, IF a.asname # "" THEN a.asname ELSE a.name[1],
                                    ModObj(<<a.name[1]>>))]

\* lines 108-122: one name of an "import" statement
ExecImportAlias(s, a) ==
    LET r == ImportModule(a.name, s.loaded)
    IN  IF ~r.ok THEN [s EXCEPT !.loaded = r.loaded, !.exc = "ImportError"]
        ELSE IF a.asname # ""
        THEN [s EXCEPT !.loaded = r.loaded,
                       !.objs = Put(@, a.asname, ModObj(a.name))]
        ELSE [s EXCEPT !.loaded = r.loaded,
                       !.objs = Put(@, a.name[1], ModObj(<<a.name[1]>>))]

RECURSIVE ExecImportNames(_, _, _)
ExecImportNames(s, names, k) ==
    IF k > Len(names) \/ s.exc # "none" THEN s
    ELSE ExecImportNames(ExecImportAlias(s, names[k]), names, k + 1)

\* for k in dir(imported_object): imported_objects[k] = getattr(...)
BindAll(objs, m, loaded) ==
    [x \in (DOMAIN objs) \cup Dir(m, loaded) |->
        IF x \in Dir(m, loaded) THEN Getattr(m, x, loaded) ELSE objs[x]]

\* A mutation of ExecFromAlias: the AttributeError is not noticed and the
\* name is bound to what the failed lookup left.
ExecFromAliasPlaceholder(s, m, a, i) ==
    IF a.name = <<"*">> THEN [s EXCEPT !.objs = BindAll(@, m, s.loaded)]
    ELSE [s EXCEPT !.objs = Put(@, IF a.asname # "" THEN a.asname ELSE a.name[1],
                                Getattr(m, a.name[1], s.loaded))]

\* lines 127-147: one name of a "from" statement
ExecFromAlias(s, m, a, i) ==
    IF a.name = <<"*">> THEN [s EXCEPT !.objs = BindAll(@, m, s.loaded)]
    ELSE LET v == Getattr(m, a.name[1], s.loaded)
         IN  IF v = NoObj
             THEN [s EXCEPT !.out = Append(@, Line("hint", i)), !.exc = "ImportError"]
             ELSE [s EXCEPT !.objs = Put(@, IF a.asname # "" THEN a.asname
                                            ELSE a.name[1], v)]

RECURSIVE ExecFromNames(_, _, _, _, _)
ExecFromNames(s, m, names, k, i) ==
    IF k > Len(names) \/ s.exc # "none" THEN s
    ELSE ExecFromNames(ExecFromAlias(s, m, names[k], i), m, names, k + 1, i)

\* lines 123-147
ExecImportFrom(s, body, i) ==
    LET r == ImportModule(body.module, s.loaded)
        fromlist == {body.names[k].name[1] : k \in 1..Len(body.names)}
    IN  IF ~r.ok THEN [s EXCEPT !.loaded = r.loaded, !.exc = "ImportError"]
        ELSE ExecFromNames(
                 [s EXCEPT !.loaded = HandleFromlist(body.module, fromlist, r.loaded)],
                 body.module, body.names, 1, i)

\* lines 106-147
RECURSIVE ExecBody(_, _, _, _)
ExecBody(s, body, k, i) ==
    IF k > Len(body) \/ s.exc # "none" THEN s
    ELSE ExecBody(IF body[k].type = "Import"
                  THEN ExecImportNames(s, body[k].names, 1)
                  ELSE ExecImportFrom(s, body[k], i),
                  body, k + 1, i)

\* lines 83-147, 244-246: a string starting with "from " or "import ".
\* node is assigned only when ast.parse succeeds; when it fails, "continue"
\* (line 91) is reached only if quiet_load is off, and otherwise line 92
\* reads node: unbound (UnboundLocalError) or left by an earlier directive.
StatementDirective(s, d, i, q) ==
    LET p == Parse(d.toks)
    IN  IF ~p.ok /\ ~q THEN Say(s, q, "error", i)
        ELSE LET node == IF p.ok THEN [bound |-> TRUE, body |-> p.body] ELSE s.node
                 s1 == [s EXCEPT !.node = node]
             IN  IF ~node.bound THEN [s EXCEPT !.exc = "UnboundLocalError"]
                 ELSE IF \E k \in 1..Len(node.body) : node.body[k].type = "Other"
                 THEN Say(s1, q, "error", i)
                 ELSE HandleImportError(
                          ExecBody(Say(s1, q, "echo", i), node.body, 1, i), d, i, q)

\* lines 180-201: (module, (name1, name2, ...))
RECURSIVE LegacyNames(_, _, _, _, _, _)
LegacyNames(s, m, names, k, i, q) ==
    IF k > Len(names) THEN s
    ELSE LET v == Getattr(m, names[k], s.loaded)
         IN  LegacyNames(IF v = NoObj THEN Say(s, q, "error", i)
                         ELSE [s EXCEPT !.objs = Put(@, names[k], v)],
                         m, names, k + 1, i, q)

\* lines 149-243: every other directive (the deprecated forms)
LegacyDirective(s, d, i, q) ==
    LET r == ImportModule(d.mod, s.loaded)
        fl == [s EXCEPT !.loaded = HandleFromlist(d.mod, Range(d.names), r.loaded)]
        failed == [s EXCEPT !.loaded = r.loaded, !.exc = "ImportError"]
    IN  CASE d.kind = "str" ->
               \* lines 155-160: __import__("") raises ValueError; a string
               \* that is no dotted name names no module
               IF d.toks = <<>> THEN [s EXCEPT !.exc = "ValueError"]
               ELSE IF Len(d.toks) = 1 /\ IsName(d.toks[1])
               THEN LET t == ImportModule(d.toks[1], s.loaded)
                    IN  IF ~t.ok
                        THEN [s EXCEPT !.loaded = t.loaded, !.exc = "ImportError"]
                        ELSE Say([s EXCEPT !.loaded = t.loaded,
                                           !.objs = Put(@, d.toks[1][1],
                                                        ModObj(<<d.toks[1][1]>>))],
                                 q, "echo", i)
               ELSE [s EXCEPT !.exc = "ImportError"]
          [] d.kind = "pair_badmod" -> Say(s, q, "error", i)
          [] d.kind = "pair_names" ->
               IF ~r.ok THEN failed
               ELSE Say(LegacyNames(fl, d.mod, d.names, 1, i, q), q, "echo", i)
          [] d.kind = "pair_name" /\ d.names[1] = "*" ->
               IF ~r.ok THEN failed
               ELSE Say([fl EXCEPT !.objs = BindAll(@, d.mod, fl.loaded)], q, "echo", i)
          [] d.kind = "pair_name" /\ d.names[1] # "*" ->
               \* lines 217-228: the AttributeError of getattr is not caught
               IF ~r.ok THEN failed
               ELSE LET v == Getattr(d.mod, d.names[1], fl.loaded)
                    IN  IF v = NoObj THEN [fl EXCEPT !.exc = "AttributeError"]
                        ELSE Say([fl EXCEPT !.objs = Put(@, d.names[1], v)], q, "echo", i)
          [] d.kind = "pair_badnames" -> Say(s, q, "error", i)
          [] d.kind \in {"scalar", "tuple1"} -> Say(s, q, "error", i)
          [] d.kind = "tuple3" ->
               \* lines 238-243: "%r" % directive with three items
               IF q THEN s ELSE [s EXCEPT !.exc = "TypeError"]

\* lines 79-246: the body of the loop for directive number i
DirectiveStep(s, d, i, q) ==
    IF d.kind = "str" /\ StartsWithImport(d.toks)
    THEN StatementDirective(s, d, i, q)
    ELSE HandleImportError(LegacyDirective(s, d, i, q), d, i, q)

\* lines 77-248: the loop from directive k on; exc # "none" is the
\* exception the call ends with
RECURSIVE RunItems(_, _, _, _)
RunItems(s, ds, k, q) ==
    IF k > Len(ds) \/ s.exc # "none" THEN s
    ELSE RunItems(DirectiveStep(s, ds[k], k, q), ds, k + 1, q)

import_items(ds, loaded, q) == RunItems(EmptySt(loaded), ds, 1, q)

(***************************************************************************)
(* The directives the batches are drawn from.                              *)
(***************************************************************************)
Str(toks) == [kind |-> "str", toks |-> toks, mod |-> <<>>, names |-> <<>>]

Pair(m, n) == [kind |-> "pair_name", toks |-> <<>>, mod |-> m, names |-> <<n>>]

PairNames(m, ns) == [kind |-> "pair_names", toks |-> <<>>, mod |-> m, names |-> ns]

Shape(kind) == [kind |-> kind, toks |-> <<>>, mod |-> <<>>, names |-> <<>>]

Import(m) == Str(<<Kw("import"), m>>)

ImportAs(m, z) == Str(<<Kw("import"), m, Kw("as"), <<z>>>>)

From(m, n) == Str(<<Kw("from"), m, Kw("import"), <<n>>>>)

FromAs(m, n, z) == Str(<<Kw("from"), m, Kw("import"), <<n>>, Kw("as"), <<z>>>>)

From2(m, n1, n2) == Str(<<Kw("from"), m, Kw("import"), <<n1>>, Kw(","), <<n2>>>>)

FromStar(m) == Str(<<Kw("from"), m, Kw("import"), Kw("*")>>)

\* "from m import n1, n2, ..."
FromList(m, ns) ==
    Str(<<Kw("from"), m, Kw("import")>>
        \o [k \in 1..(2 * Len(ns) - 1) |->
               IF k % 2 = 1 THEN <<ns[(k + 1) \div 2]>> ELSE Kw(",")])

StatementPool ==
    { Import(<<"pk">>), Import(<<"pk", "sub">>), ImportAs(<<"pk", "sub">>, "z"),
      Import(<<"nomod">>),
      From(<<"pk">>, "x"), FromAs(<<"pk">>, "x", "z"), From(<<"pk">>, "sub"),
      From2(<<"pk">>, "nope", "x"), From2(<<"pk">>, "x", "nope"),
      From2(<<"lib">>, "x", "Item"), From(<<"nomod">>, "x"),
      FromStar(<<"pk">>),
      Str(<<Kw("import"), Kw(")")>>),                       \* no Python
      Str(<<Kw("import"), <<"lib">>, Kw(";"), Kw("pass")>>) \* not only imports
    }

LegacyPool ==
    { Str(<<<<"pk", "sub">>>>), Str(<<<<"nomod">>>>), Str(<<>>),
      Pair(<<"pk">>, "x"), Pair(<<"pk">>, "sub"), Pair(<<"pk">>, "nope"),
      Pair(<<"nomod">>, "x"), Pair(<<"pk">>, "*"),
      PairNames(<<"pk">>, <<"nope", "x">>), PairNames(<<"pk">>, <<"x", "nope">>),
      PairNames(<<"lib">>, <<"x", "Item">>),
      Shape("pair_badmod"), Shape("pair_badnames"), Shape("scalar"),
      Shape("tuple1"), Shape("tuple3") }

DirectivePool == StatementPool \cup LegacyPool

Batches == UNION {[1..n -> DirectivePool] : n \in 1..MaxBatch}

(***************************************************************************)
(* The specifications.                                                     *)
(***************************************************************************)
Idle == <<>>

AppIdle == mod_name = Idle /\ app_name = Idle

ItemsIdle == import_directives = Idle /\ idx = 0 /\ st = Idle

ObjectsIdle ==
    /\ conf = Idle /\ load_models = Idle /\ imported_objects = Idle /\ imports = Idle
    /\ models_to_import = Idle /\ resolved = Idle /\ sys = Idle /\ phases = Idle

\* get_app_name(mod_name), for every path of at most MaxSegs segments
Segments == {"models", "testapp", "a", "b", "Foo"}

InitAppName ==
    /\ pc = "app_name_call"
    /\ mod_name \in UNION {[1..n -> Segments] : n \in 1..MaxSegs}
    /\ app_name = Idle
    /\ quiet_load = FALSE
    /\ ItemsIdle
    /\ ObjectsIdle

GetAppName ==
    /\ pc = "app_name_call"
    /\ app_name' = get_app_name(mod_name)
    /\ pc' = "app_name_done"
    /\ UNCHANGED <<mod_name, quiet_load, itemsVars, objVars>>

NextAppName == GetAppName

SpecAppName == InitAppName /\ [][NextAppName]_vars

\* import_items(import_directives, style, quiet_load), in a fresh interpreter
InitItems ==
    /\ pc = "items_loop"
    /\ import_directives \in Batches
    /\ quiet_load \in BOOLEAN
    /\ idx = 0
    /\ st = EmptySt({})
    /\ AppIdle
    /\ ObjectsIdle

\* one turn of the loop of line 79; an exception ends the call
ItemsDirective ==
    /\ pc = "items_loop"
    /\ idx < Len(import_directives)
    /\ st' = DirectiveStep(st, import_directives[idx + 1], idx + 1, quiet_load)
    /\ idx' = idx + 1
    /\ pc' = IF st'.exc # "none" THEN "items_raised" ELSE "items_loop"
    /\ UNCHANGED <<import_directives, quiet_load, appVars, objVars>>

\* line 248
ItemsReturn ==
    /\ pc = "items_loop"
    /\ idx = Len(import_directives)
    /\ pc' = "items_returned"
    /\ UNCHANGED <<quiet_load, appVars, itemsVars, objVars>>

NextItems == ItemsDirective \/ ItemsReturn

SpecItems == InitItems /\ [][NextItems]_vars

(***************************************************************************)
(* C9: get_app_name returns the segment before the last "models" segment   *)
(* when there is one, the second-to-last segment when no segment is        *)
(* "models", and the whole path when that segment does not exist.          *)
(***************************************************************************)
LastModels(m) ==
    CHOOSE k \in 1..Len(m) :
        m[k] = MODELS_MODULE_NAME /\ \A j \in (k + 1)..Len(m) : m[j] # MODELS_MODULE_NAME

C9_AppName ==
    pc = "app_name_done" =>
        IF MODELS_MODULE_NAME \in Range(mod_name)
        THEN IF LastModels(mod_name) > 1
             THEN app_name = <<mod_name[LastModels(mod_name) - 1]>>
             ELSE app_name = mod_name
        ELSE IF Len(mod_name) >= 2
             THEN app_name = <<mod_name[Len(mod_name) - 1]>>
             ELSE app_name = mod_name

\* a.models.testapp.models.Foo gives testapp
C9_Witness ==
    /\ pc = "app_name_done"
    /\ mod_name = <<"a", "models", "testapp", "models", "Foo">>
    /\ app_name = <<"testapp">>

(***************************************************************************)
(* What the claims about import_items speak of.                            *)
(***************************************************************************)
\* "pk.sub" for <<"pk", "sub">>
RECURSIVE Dotted(_)
Dotted(path) ==
    IF Len(path) = 1 THEN path[1] ELSE path[1] \o "." \o Dotted(Tail(path))

\* from m import n can succeed: n is an attribute or a submodule of m
Resolvable(m, n) == n \in Attrs(m) \cup Dunder \/ Append(m, n) \in Modules

\* the object from m import n resolves to
Resolved(m, n) ==
    IF n \in Attrs(m) \cup Dunder THEN [mod |-> m, attr |-> n] ELSE ModObj(Append(m, n))

ValidStmt(b) ==
    \/ b.type = "Import" /\ \A k \in 1..Len(b.names) : b.names[k].name \in Modules
    \/ /\ b.type = "ImportFrom" /\ b.module \in Modules
       /\ \A k \in 1..Len(b.names) :
             b.names[k].name = <<"*">> \/ Resolvable(b.module, b.names[k].name[1])

IsStatement(d) == d.kind = "str" /\ StartsWithImport(d.toks)

IsBareModule(d) ==
    d.kind = "str" /\ ~StartsWithImport(d.toks) /\ Len(d.toks) = 1 /\ IsName(d.toks[1])

\* a directive that is well formed and names only what exists
ValidDirective(d) ==
    CASE IsStatement(d) ->
           Parse(d.toks).ok /\ \A k \in 1..Len(Parse(d.toks).body) :
                                   ValidStmt(Parse(d.toks).body[k])
      [] IsBareModule(d) -> d.toks[1] \in Modules
      [] d.kind \in {"pair_name", "pair_names"} ->
           d.mod \in Modules /\ \A k \in 1..Len(d.names) :
                                    d.names[k] = "*" \/ Resolvable(d.mod, d.names[k])
      [] OTHER -> FALSE

Echoed(k) == \E j \in 1..Len(st.out) : st.out[j] = Line("echo", k)

Reported(k) == \E j \in 1..Len(st.out) : st.out[j] = Line("error", k)

ItemsEnded == pc \in {"items_returned", "items_raised"}

Alone == Len(import_directives) = 1

\* the statement string the docstring of import_items gives for a legacy form
StatementFor(d) ==
    IF d.kind = "str" THEN Import(d.toks[1])
    ELSE FromList(d.mod, d.names)

\* names that begin with an underscore
PrivateNames == {"_p"} \cup Dunder

(***************************************************************************)
(* C1: a batch with one bad directive: import_items returns, the failure   *)
(* is logged, and the names of every valid directive are in the result.    *)
(***************************************************************************)
BadDirectives == {k \in 1..Len(import_directives) : ~ValidDirective(import_directives[k])}

C1_OneBadDirective ==
    Cardinality(BadDirectives) = 1 =>
        /\ pc # "items_raised"
        /\ pc = "items_returned" =>
              /\ \A k \in (1..Len(import_directives)) \ BadDirectives :
                    DOMAIN import_items(<<import_directives[k]>>, {}, TRUE).objs
                        \subseteq DOMAIN st.objs
              /\ ~quiet_load => \A k \in BadDirectives : Reported(k)

(***************************************************************************)
(* C2, as claimed: a valid statement string alone binds exactly its        *)
(* declared names (the alias, else the name as declared), each to the      *)
(* object the named module or attribute resolves to.                       *)
(***************************************************************************)
\* the (key, object) pairs a parsed line declares, in order
RECURSIVE Declared(_, _)
Declared(body, full) ==
    IF body = <<>> THEN <<>>
    ELSE LET b == Head(body)
         IN  [k \in 1..Len(b.names) |->
                 LET a == b.names[k]
                 IN  IF b.type = "ImportFrom"
                     THEN <<IF a.asname # "" THEN a.asname ELSE a.name[1],
                            Resolved(b.module, a.name[1])>>
                     ELSE IF a.asname # "" THEN <<a.asname, ModObj(a.name)>>
                     ELSE IF full THEN <<Dotted(a.name), ModObj(a.name)>>
                     ELSE <<a.name[1], ModObj(<<a.name[1]>>)>>]
             \o Declared(Tail(body), full)

\* the mapping the pairs make, a later pair replacing an earlier one
AsMapping(pairs) ==
    [key \in {pairs[k][1] : k \in 1..Len(pairs)} |->
        pairs[CHOOSE k \in 1..Len(pairs) :
                  pairs[k][1] = key /\ \A j \in (k + 1)..Len(pairs) : pairs[j][1] # key][2]]

NoStar(d) == Kw("*") \notin Range(d.toks)

AloneValidStatement ==
    /\ Alone /\ IsStatement(import_directives[1])
    /\ ValidDirective(import_directives[1]) /\ NoStar(import_directives[1])

C2_DeclaredNamesAsClaimed ==
    (AloneValidStatement /\ ItemsEnded) =>
        /\ pc = "items_returned"
        /\ st.objs = AsMapping(Declared(Parse(import_directives[1].toks).body, TRUE))

(***************************************************************************)
(* C2, amended: as claimed, except that "import X" without an alias binds  *)
(* the first segment of X to the top-level package of X.                   *)
(***************************************************************************)
C2_DeclaredNames ==
    (AloneValidStatement /\ ItemsEnded) =>
        /\ pc = "items_returned"
        /\ st.objs = AsMapping(Declared(Parse(import_directives[1].toks).body, FALSE))

C2_Witness ==
    /\ pc = "items_returned" /\ Alone
    /\ import_directives[1] = FromAs(<<"pk">>, "x", "z")
    /\ DOMAIN st.objs = {"z"}

(***************************************************************************)
(* C6: a legacy directive alone gives the bindings of the statement string *)
(* it stands for, whatever the module holds.                               *)
(***************************************************************************)
C6_LegacyAsStatement ==
    LET d == import_directives[1]
        r == import_items(<<StatementFor(d)>>, {}, quiet_load)
    IN  (Alone /\ ItemsEnded /\ (IsBareModule(d) \/ d.kind \in {"pair_name", "pair_names"}))
            => (st.exc = r.exc /\ st.objs = r.objs)

(***************************************************************************)
(* C7: a "*" directive alone binds every public attribute of its target,   *)
(* and the names it adds are the public attributes of the target.          *)
(***************************************************************************)
IsStar(d) ==
    \/ IsStatement(d) /\ Len(d.toks) = 4 /\ d = FromStar(d.toks[2])
    \/ d.kind = "pair_name" /\ d.names = <<"*">>

StarTarget(d) == IF d.kind = "str" THEN d.toks[2] ELSE d.mod

C7_StarBindsPublic ==
    LET d == import_directives[1]
    IN  (Alone /\ IsStar(d) /\ StarTarget(d) \in Modules /\ ItemsEnded) =>
            /\ pc = "items_returned"
            /\ DOMAIN st.objs = Dir(StarTarget(d), st.loaded) \ PrivateNames

(***************************************************************************)
(* C10: the echo of a directive is written exactly when the directive      *)
(* succeeded and quiet mode is off; a failed directive is reported as an   *)
(* error instead.                                                          *)
(***************************************************************************)
C10_EchoIffSucceeded ==
    pc = "items_returned" =>
        \A k \in 1..Len(import_directives) :
            /\ Echoed(k) <=> (~quiet_load /\ ValidDirective(import_directives[k]))
            /\ (~quiet_load /\ ~ValidDirective(import_directives[k])) => Reported(k)

(***************************************************************************)
(* import_objects.                                                         *)
(*                                                                         *)
(* conf holds what the call reads: the options (dont_load, traceback), the *)
(* settings (SHELL_PLUS_...), the application registry get_app_configs()  *)
(* and the mongoengine document registry.  An application is a record      *)
(* [label, models_module, models], models_module <<>> for None; a model is *)
(* [module, name], its __module__ and __name__.  A denylist entry is the   *)
(* sequence of its segments, "*" being <<"*">>.                            *)
(***************************************************************************)
\* sorted(): the strings of the model in Python's order
Alphabet ==
    <<"Cart", "Ghost", "Item", "Nope", "Note", "Order", "Post", "blog", "docs",
      "ext", "lib", "models", "shop">>

Rank(w) == Index(Alphabet, w)

\* the key of a dotted name: segment by segment (no segment of the model
\* is a prefix of another, so this is the order of the strings)
RECURSIVE PathKey(_, _)
PathKey(path, n) ==
    IF n = 0 THEN 0
    ELSE (IF path = <<>> THEN 0 ELSE Rank(Head(path))) * (16 ^ (n - 1))
         + PathKey(IF path = <<>> THEN <<>> ELSE Tail(path), n - 1)

\* sorted(s) by the keys k (k[i] the key of s[i]), stable
SortByKey(s, k) ==
    LET pos(i) == Cardinality({j \in 1..Len(s) : k[j] < k[i] \/ (k[j] = k[i] /\ j < i)}) + 1
    IN  [p \in 1..Len(s) |-> s[CHOOSE i \in 1..Len(s) : pos(i) = p]]

SortNames(s) == SortByKey(s, [i \in 1..Len(s) |-> Rank(s[i])])

\* "%s.%s" % (a, b)
Dot(a, b) == Append(a, b)

\* d.setdefault(k, []); d[k].append(v), d a function to sequences
AppendTo(d, k, v) == Put(d, k, IF k \in DOMAIN d THEN Append(d[k], v) ELSE <<v>>)

\* the same on a dict whose order matters: a sequence of [key, items]
AppendToEntry(es, k, v) ==
    IF \E j \in 1..Len(es) : es[j].key = k
    THEN [j \in 1..Len(es) |->
             IF es[j].key = k THEN [es[j] EXCEPT !.items = Append(@, v)] ELSE es[j]]
    ELSE Append(es, [key |-> k, items |-> <<v>>])

\* line 262
DontLoad(c) == Range(c.dont_load_cli \o c.dont_load_conf)

\* line 263
DontLoadAnyModels(c) == <<"*">> \in DontLoad(c)

\* lines 379-387: the documents of mongoengine's registry
RECURSIVE LoadDocuments(_, _, _, _)
LoadDocuments(c, docs, k, lm) ==
    IF k > Len(docs) THEN lm
    ELSE LET name == docs[k].name[Len(docs[k].name)]
             app == get_app_name(docs[k].module)
         IN  LoadDocuments(c, docs, k + 1,
                 IF app \in DontLoad(c) \/ Dot(app, name) \in DontLoad(c) THEN lm
                 ELSE AppendTo(lm, docs[k].module, name))

\* A mutation of LoadAppModels: the app.Model entries are not looked at.
RECURSIVE LoadAppModelsNoModelEntry(_, _, _, _, _)
LoadAppModelsNoModelEntry(c, app, models, k, lm) ==
    IF k > Len(models) THEN lm
    ELSE LoadAppModelsNoModelEntry(c, app, models, k + 1,
             IF models[k].module # <<"">> THEN AppendTo(lm, models[k].module, models[k].name)
             ELSE lm)

\* lines 398-405: the models of one application
RECURSIVE LoadAppModels(_, _, _, _, _)
LoadAppModels(c, app, models, k, lm) ==
    IF k > Len(models) THEN lm
    ELSE LoadAppModels(c, app, models, k + 1,
             IF Dot(app, models[k].name) \in DontLoad(c) THEN lm
             ELSE IF models[k].module # <<"">>
             THEN AppendTo(lm, models[k].module, models[k].name)
             ELSE lm)

\* lines 358-361, 389-405: every application that has a models module
RECURSIVE LoadApps(_, _, _, _)
LoadApps(c, apps, k, lm) ==
    IF k > Len(apps) THEN lm
    ELSE LoadApps(c, apps, k + 1,
             IF apps[k].models_module = <<>> THEN lm
             ELSE IF get_app_name(apps[k].models_module) \in DontLoad(c) THEN lm
             ELSE LoadAppModels(c, get_app_name(apps[k].models_module),
                                apps[k].models, 1, lm))

\* lines 379-405
Discover(c) ==
    LET docs == IF c.mongoengine /\ ~DontLoadAnyModels(c)
                THEN LoadDocuments(c, c.documents, 1, EmptyDict) ELSE EmptyDict
    IN  IF DontLoadAnyModels(c) THEN docs ELSE LoadApps(c, c.apps, 1, docs)

\* lines 290-296
AliasFor(c, app, model_name) ==
    IF app \in DOMAIN c.model_aliases /\ model_name \in DOMAIN c.model_aliases[app]
    THEN c.model_aliases[app][model_name]
    ELSE IF app \in DOMAIN c.app_prefixes
    THEN c.app_prefixes[app] \o "_" \o model_name
    ELSE model_name

\* lines 286-299
RECURSIVE CandidatesOfModule(_, _, _, _, _)
CandidatesOfModule(c, app_mod, names, k, m2i) ==
    IF k > Len(names) THEN m2i
    ELSE CandidatesOfModule(c, app_mod, names, k + 1,
             IF Dot(get_app_name(app_mod), names[k]) \in DontLoad(c) THEN m2i
             ELSE AppendToEntry(m2i, AliasFor(c, get_app_name(app_mod), names[k]),
                                Dot(app_mod, names[k])))

RECURSIVE CandidatesFrom(_, _, _, _, _)
CandidatesFrom(c, lm, mods, k, m2i) ==
    IF k > Len(mods) THEN m2i
    ELSE CandidatesFrom(c, lm, mods, k + 1,
             CandidatesOfModule(c, mods[k], SortNames(lm[mods[k]]), 1, m2i))

\* a set as a sequence, in any order
RECURSIVE SeqOf(_)
SeqOf(S) == IF S = {} THEN <<>> ELSE LET x == CHOOSE y \in S : TRUE
                                     IN  <<x>> \o SeqOf(S \ {x})

\* lines 272-300: display name -> candidate paths, in the order of insertion
get_dict_from_names_to_possible_models(c, lm) ==
    LET mods == SeqOf(DOMAIN lm)
        sorted == SortByKey(mods, [i \in 1..Len(mods) |-> PathKey(mods[i], 4)])
    IN  CandidatesFrom(c, lm, sorted, 1, <<>>)

Front(path) == SubSeq(path, 1, Len(path) - 1)

Last(path) == path[Len(path)]

\* CollisionResolvingRunner().run_collision_resolver(models_to_import): the
\* resolver capability.  Every candidate is kept under the display name
\* ("last": of the candidates of one name only the last is kept) or
\* renamed after its application ("app_prefix"); the result is
\* module -> [(model, alias)], a sequence of [key, items].
RECURSIVE ResolvedPairs(_, _, _)
ResolvedPairs(strategy, m2i, k) ==
    IF k > Len(m2i) THEN <<>>
    ELSE LET e == m2i[k]
         IN  (IF Len(e.items) = 1 \/ strategy = "last"
              THEN <<[path |-> Last(e.items), alias |-> e.key]>>
              ELSE [j \in 1..Len(e.items) |->
                       [path |-> e.items[j],
                        alias |-> Dotted(get_app_name(Front(e.items[j]))) \o "_"
                                      \o Last(e.items[j])]])
             \o ResolvedPairs(strategy, m2i, k + 1)

RECURSIVE GroupByModule(_, _, _)
GroupByModule(pairs, k, res) ==
    IF k > Len(pairs) THEN res
    ELSE GroupByModule(pairs, k + 1,
             AppendToEntry(res, Front(pairs[k].path),
                           <<Last(pairs[k].path), pairs[k].alias>>))

run_collision_resolver(strategy, m2i) ==
    GroupByModule(ResolvedPairs(strategy, m2i, 1), 1, <<>>)

\* django.utils.module_loading.import_string(dotted_path), called at line
\* 333: every failure is an ImportError
import_string(path, loaded) ==
    IF Len(path) < 2 THEN [ok |-> FALSE, obj |-> NoObj, loaded |-> loaded]
    ELSE LET r == ImportModule(Front(path), loaded)
             v == IF r.ok THEN Getattr(Front(path), Last(path), r.loaded) ELSE NoObj
         IN  [ok |-> v # NoObj, obj |-> v, loaded |-> r.loaded]

\* A mutation of ImportPair: the ImportError is not caught apart for each
\* model, the first failure ends the pass.
ImportPairAborting(s, module, pair, ei, q, tb) ==
    LET r == import_string(Dot(module, pair[1]), s.loaded)
    IN  IF s.exc # "none" THEN s
        ELSE IF r.ok
        THEN [s EXCEPT !.loaded = r.loaded, !.objs = Put(@, pair[2], r.obj),
                       !.bound = Put(@, pair[2], r.obj)]
        ELSE [s EXCEPT !.loaded = r.loaded, !.exc = "skip",
                       !.out = @ \o (IF tb THEN <<Line("traceback", ei)>> ELSE <<>>)
                                 \o (IF q THEN <<>> ELSE <<Line("error", ei)>>)]

\* lines 332-349: one (model_name, alias) of the module of entry ei.  The
\* state is [objs, bound, loaded, out, exc]: imported_objects, what this
\* pass bound, the loaded modules and the lines printed.
ImportPair(s, module, pair, ei, q, tb) ==
    LET r == import_string(Dot(module, pair[1]), s.loaded)
    IN  IF r.ok
        THEN [s EXCEPT !.loaded = r.loaded, !.objs = Put(@, pair[2], r.obj),
                       !.bound = Put(@, pair[2], r.obj)]
        ELSE [s EXCEPT !.loaded = r.loaded,
                       !.out = @ \o (IF tb THEN <<Line("traceback", ei)>> ELSE <<>>)
                                 \o (IF q THEN <<>> ELSE <<Line("error", ei)>>)]

RECURSIVE ImportPairs(_, _, _, _, _, _, _)
ImportPairs(s, module, pairs, k, ei, q, tb) ==
    IF k > Len(pairs) THEN s
    ELSE ImportPairs(ImportPair(s, module, pairs[k], ei, q, tb),
                     module, pairs, k + 1, ei, q, tb)

\* lines 329-356: the entries from number ei on
RECURSIVE ImportEntries(_, _, _, _, _)
ImportEntries(s, map, ei, q, tb) ==
    IF ei > Len(map) THEN s
    ELSE LET pairs == SortByKey(map[ei].items,
                                [i \in 1..Len(map[ei].items) |-> Rank(map[ei].items[i][1])])
             done == ImportPairs(s, map[ei].key, pairs, 1, ei, q, tb)
         IN  ImportEntries(IF q THEN done
                           ELSE [done EXCEPT !.out = Append(@, Line("echo", ei))],
                           map, ei + 1, q, tb)

\* lines 322-356
perform_automatic_imports(objs, loaded, map, q, tb) ==
    ImportEntries([objs |-> objs, bound |-> EmptyDict, loaded |-> loaded,
                   out |-> <<>>, exc |-> "none"], map, 1, q, tb)

\* A mutation of Merge: a name already bound keeps its value.
MergeKeepFirst(objs, new) ==
    [x \in (DOMAIN objs) \cup (DOMAIN new) |-> IF x \in DOMAIN objs THEN objs[x] ELSE new[x]]

\* lines 376-377: for k, v in imports.items(): imported_objects[k] = v
Merge(objs, new) ==
    [x \in (DOMAIN objs) \cup (DOMAIN new) |-> IF x \in DOMAIN new THEN new[x] ELSE objs[x]]

\* lines 20-29
SHELL_PLUS_DJANGO_IMPORTS ==
    << FromList(<<"django", "core", "cache">>, <<"cache">>),
       FromList(<<"django", "conf">>, <<"settings">>),
       FromList(<<"django", "contrib", "auth">>, <<"get_user_model">>),
       FromList(<<"django", "db">>, <<"transaction">>),
       FromList(<<"django", "db", "models">>,
                <<"Avg", "Case", "Count", "F", "Max", "Min", "Prefetch", "Q", "Sum",
                  "When">>),
       FromList(<<"django", "utils">>, <<"timezone">>),
       FromList(<<"django", "urls">>, <<"reverse">>),
       FromList(<<"django", "db", "models">>, <<"Exists", "OuterRef", "Subquery">>) >>

(***************************************************************************)
(* The configurations import_objects is run on.                            *)
(***************************************************************************)
Model(m, n) == [module |-> m, name |-> n]

App(label, mm, models) == [label |-> label, models_module |-> mm, models |-> models]

ShopApp ==
    App("shop", <<"shop", "models">>,
        <<Model(<<"shop", "models">>, "Item"), Model(<<"shop", "models">>, "Order")>>)

BlogApp ==
    App("blog", <<"blog", "models">>,
        <<Model(<<"blog", "models">>, "Post"), Model(<<"blog", "models">>, "Item")>>)

\* a second application whose models module ends in shop.models
ExtShopApp ==
    App("ext_shop", <<"ext", "shop", "models">>,
        <<Model(<<"ext", "shop", "models">>, "Item"),
          Model(<<"ext", "shop", "models">>, "Cart")>>)

\* an application with a model that cannot be imported (Ghost), a model
\* with an empty __module__ and a model defined in another package
BlogOddApp ==
    App("blog", <<"blog", "models">>,
        <<Model(<<"blog", "models">>, "Post"), Model(<<"blog", "models">>, "Ghost"),
          Model(<<"">>, "Anon"), Model(<<"shop", "models">>, "Order")>>)

\* an application without a models module
PlainApp == App("plain", <<>>, <<>>)

Registries ==
    { <<ShopApp, BlogApp>>, <<ShopApp, ExtShopApp>>, <<PlainApp, BlogOddApp>> }

\* (dont_load of the command line, SHELL_PLUS_DONT_LOAD)
Denylists ==
    { <<<<>>, <<>>>>,
      <<<< <<"shop">> >>, <<>>>>,
      <<<<>>, << <<"shop", "Item">>, <<"blog", "Order">> >>>>,
      <<<< <<"blog">> >>, << <<"shop", "Order">> >>>>,
      <<<< <<"ext_shop">> >>, << <<"blog", "Post">> >>>>,
      <<<< <<"*">> >>, << <<"blog">> >>>> }

\* (SHELL_PLUS_MODEL_ALIASES, SHELL_PLUS_APP_PREFIXES, the resolver)
Namings ==
    { <<EmptyDict, EmptyDict, "last">>,
      <<EmptyDict, EmptyDict, "app_prefix">>,
      <<[a \in {<<"shop">>} |-> [n \in {"Item"} |-> "Thing"]], EmptyDict, "last">>,
      <<EmptyDict, [a \in {<<"blog">>} |-> "b"], "last">> }

\* (SHELL_PLUS_PRE_IMPORTS, SHELL_PLUS_IMPORTS, SHELL_PLUS_POST_IMPORTS)
UserDirectives ==
    { <<<<>>, <<>>, <<>>>>,
      << <<From2(<<"lib">>, "x", "Item")>>,
         <<From(<<"lib">>, "Item"), From2(<<"pk">>, "x", "nope")>>,
         <<From2(<<"lib">>, "cache", "x")>> >>,
      << <<>>, <<Pair(<<"pk">>, "nope")>>, <<>> >>,
      << <<>>,
         <<Import(<<"nomod">>), PairNames(<<"pk">>, <<"nope", "x">>)>>,
         <<Str(<<Kw("import"), Kw(")")>>), FromStar(<<"pk">>)>> >> }

\* (mongoengine can be imported, its _document_registry,
\*  SHELL_PLUS_SUBCLASSES_IMPORT is set, what SubclassesFinder collects)
Collaborators ==
    { <<FALSE, <<>>, FALSE, <<>>>>,
      <<TRUE, <<[name |-> <<"Base", "Note">>, module |-> <<"shop", "docs">>]>>,
        FALSE, <<>>>>,
      <<FALSE, <<>>, TRUE,
        <<[key |-> <<"blog", "models">>,
           items |-> <<<<"Post", "Post">>, <<"Nope", "Nope">>>>],
          [key |-> <<"lib">>, items |-> <<<<"Item", "Item">>>>]>> >> }

Confs ==
    { [apps |-> r, dont_load_cli |-> d[1], dont_load_conf |-> d[2],
       model_aliases |-> n[1], app_prefixes |-> n[2], resolver |-> n[3],
       pre_imports |-> u[1], user_imports |-> u[2], post_imports |-> u[3],
       mongoengine |-> m[1], documents |-> m[2],
       subclasses_import |-> m[3], subclasses |-> m[4],
       django_imports |-> dj, traceback |-> tb] :
        r \in Registries, d \in Denylists, n \in Namings, u \in UserDirectives,
        m \in Collaborators, dj \in BOOLEAN, tb \in BOOLEAN }

(***************************************************************************)
(* import_objects(options, style): the phases, one action each.  sys is    *)
(* [loaded, out]; phases lists [name, bound], what each phase bound.       *)
(***************************************************************************)
InitObjects ==
    /\ pc = "obj_pre"
    /\ conf \in Confs
    /\ quiet_load \in BOOLEAN
    /\ load_models = EmptyDict
    /\ imported_objects = EmptyDict
    /\ imports = EmptyDict
    /\ models_to_import = <<>>
    /\ resolved = <<>>
    /\ sys = [loaded |-> {}, out |-> <<>>]
    /\ phases = <<>>
    /\ AppIdle
    /\ ItemsIdle

Header == IF quiet_load THEN <<>> ELSE <<Line("header", 0)>>

\* lines 372-377, 417-422, 424-430, 433-439: a list of directives is run
\* by import_items when the setting is set, and its result merged; an
\* exception of import_items ends import_objects
ItemsPhase(name, enabled, ds, next) ==
    \E r \in {import_items(ds, sys.loaded, quiet_load)} :
        IF ~enabled
        THEN /\ pc' = next
             /\ phases' = Append(phases, [name |-> name, bound |-> EmptyDict])
             /\ UNCHANGED <<imports, imported_objects, sys>>
        ELSE /\ sys' = [loaded |-> r.loaded, out |-> sys.out \o Header \o r.out]
             /\ IF r.exc # "none"
                THEN /\ pc' = "obj_raised"
                     /\ UNCHANGED <<imports, imported_objects, phases>>
                ELSE /\ pc' = next
                     /\ imports' = r.objs
                     /\ imported_objects' = Merge(imported_objects, r.objs)
                     /\ phases' = Append(phases, [name |-> name, bound |-> r.objs])

\* lines 371-377
PreImports ==
    /\ pc = "obj_pre"
    /\ ItemsPhase("pre", conf.pre_imports # <<>>, conf.pre_imports, "obj_discover")
    /\ UNCHANGED <<quiet_load, conf, load_models, models_to_import, resolved,
                   appVars, itemsVars>>

\* lines 379-405
DiscoverModels ==
    /\ pc = "obj_discover"
    /\ load_models' = Discover(conf)
    /\ pc' = "obj_subclasses"
    /\ UNCHANGED <<quiet_load, conf, imported_objects, imports, models_to_import,
                   resolved, sys, phases, appVars, itemsVars>>

\* lines 407 and 302-309
ImportSubclasses ==
    LET r == perform_automatic_imports(imported_objects, sys.loaded, conf.subclasses,
                                       quiet_load, conf.traceback)
    IN  /\ pc = "obj_subclasses"
        /\ pc' = "obj_models"
        /\ IF conf.subclasses_import
           THEN /\ imported_objects' = r.objs
                /\ sys' = [loaded |-> r.loaded, out |-> sys.out \o Header \o r.out]
                /\ phases' = Append(phases, [name |-> "subclasses", bound |-> r.bound])
           ELSE /\ phases' = Append(phases, [name |-> "subclasses", bound |-> EmptyDict])
                /\ UNCHANGED <<imported_objects, sys>>
        /\ UNCHANGED <<quiet_load, conf, load_models, imports, models_to_import,
                       resolved, appVars, itemsVars>>

\* lines 408-414 and 311-320
ImportModels ==
    LET m2i == get_dict_from_names_to_possible_models(conf, load_models)
        map == run_collision_resolver(conf.resolver, m2i)
        r == perform_automatic_imports(imported_objects, sys.loaded, map,
                                       quiet_load, conf.traceback)
    IN  /\ pc = "obj_models"
        /\ pc' = "obj_django"
        /\ models_to_import' = m2i
        /\ resolved' = map
        /\ imported_objects' = r.objs
        /\ sys' = [loaded |-> r.loaded, out |-> sys.out \o Header \o r.out]
        /\ phases' = Append(phases, [name |-> "models", bound |-> r.bound])
        /\ UNCHANGED <<quiet_load, conf, load_models, imports, appVars, itemsVars>>

\* lines 416-422
DjangoImports ==
    /\ pc = "obj_django"
    /\ ItemsPhase("django", conf.django_imports, SHELL_PLUS_DJANGO_IMPORTS, "obj_user")
    /\ UNCHANGED <<quiet_load, conf, load_models, models_to_import, resolved,
                   appVars, itemsVars>>

\* lines 424-430
UserImports ==
    /\ pc = "obj_user"
    /\ ItemsPhase("user", conf.user_imports # <<>>, conf.user_imports, "obj_post")
    /\ UNCHANGED <<quiet_load, conf, load_models, models_to_import, resolved,
                   appVars, itemsVars>>

\* lines 432-441
PostImports ==
    /\ pc = "obj_post"
    /\ ItemsPhase("post", conf.post_imports # <<>>, conf.post_imports, "obj_returned")
    /\ UNCHANGED <<quiet_load, conf, load_models, models_to_import, resolved,
                   appVars, itemsVars>>

NextObjects ==
    \/ PreImports \/ DiscoverModels \/ ImportSubclasses \/ ImportModels
    \/ DjangoImports \/ UserImports \/ PostImports

SpecObjects == InitObjects /\ [][NextObjects]_vars

\* a call of import_items or a call of import_objects
InitCalls == InitItems \/ InitObjects

NextCalls == NextItems \/ NextObjects

SpecCalls == InitCalls /\ [][NextCalls]_vars

(***************************************************************************)
(* What the claims about import_objects speak of.                          *)
(***************************************************************************)
ObjectsRunning ==
    pc \in {"obj_pre", "obj_discover", "obj_subclasses", "obj_models", "obj_django",
            "obj_user", "obj_post", "obj_returned", "obj_raised"}

\* the model imports have run
PastModels == ObjectsRunning /\ Len(phases) >= 3

PhaseOrder == <<"pre", "subclasses", "models", "django", "user", "post">>

PhaseNames == [k \in 1..Len(phases) |-> phases[k].name]

\* the phases that bound x
BoundBy(x) == {k \in 1..Len(phases) : x \in DOMAIN phases[k].bound}

\* the value the latest phase that bound x gave it
LatestValue(x) ==
    phases[CHOOSE k \in BoundBy(x) : \A j \in BoundBy(x) : j <= k].bound[x]

(***************************************************************************)
(* C3: the phases run in the order pre-imports, subclass imports, model    *)
(* imports, framework imports, user imports, post-imports, and a name      *)
(* bound by several phases holds the value of the latest of them.          *)
(***************************************************************************)
C3_PhaseOrder ==
    ObjectsRunning =>
        /\ PhaseNames = SubSeq(PhaseOrder, 1, Len(phases))
        /\ pc = "obj_returned" => PhaseNames = PhaseOrder
        /\ DOMAIN imported_objects = UNION {DOMAIN phases[k].bound : k \in 1..Len(phases)}
        /\ \A x \in DOMAIN imported_objects : imported_objects[x] = LatestValue(x)

\* Item is bound by the model imports and by the user imports, to different
\* objects: the result holds the one of the user imports
C3_Witness ==
    /\ pc = "obj_returned"
    /\ "Item" \in DOMAIN phases[3].bound
    /\ "Item" \in DOMAIN phases[5].bound
    /\ phases[3].bound["Item"] # phases[5].bound["Item"]
    /\ imported_objects["Item"] = phases[5].bound["Item"]

(***************************************************************************)
(* C4, as claimed: with the applications told apart by their labels, an    *)
(* entry app.Model removes that model only, an entry app removes the       *)
(* models of that application only, and "*" skips discovery so that the    *)
(* model imports bind nothing.                                             *)
(***************************************************************************)
\* the candidate paths of models_to_import
DiscoveredSet ==
    UNION {Range(models_to_import[k].items) : k \in 1..Len(models_to_import)}

\* the (application, model) pairs of the registry that can be loaded at all
RegistryModels ==
    {am \in UNION {{<<a, a.models[k]>> : k \in 1..Len(a.models)} : a \in Range(conf.apps)} :
        am[1].models_module # <<>> /\ am[2].module # <<"">>}

\* the documents the denylist keeps: they belong to no application, their
\* entries name the package of their module
KeptDocuments ==
    {Dot(d.module, Last(d.name)) :
        d \in {e \in Range(conf.documents) :
                  /\ conf.mongoengine
                  /\ get_app_name(e.module) \notin DontLoad(conf)
                  /\ Dot(get_app_name(e.module), Last(e.name)) \notin DontLoad(conf)}}

SkippedEntirely ==
    /\ load_models = EmptyDict
    /\ models_to_import = <<>>
    /\ phases[3].bound = EmptyDict

C4_DenylistByApplication ==
    PastModels =>
        IF DontLoadAnyModels(conf) THEN SkippedEntirely
        ELSE DiscoveredSet =
                 KeptDocuments \cup
                 {Dot(am[2].module, am[2].name) :
                     am \in {x \in RegistryModels :
                                /\ <<x[1].label>> \notin DontLoad(conf)
                                /\ <<x[1].label, x[2].name>> \notin DontLoad(conf)}}

(***************************************************************************)
(* C4, amended: an entry is compared with the name get_app_name derives    *)
(* from a module path, never with the application itself.  An entry a      *)
(* removes the models of every application whose models module derives a;  *)
(* an entry a.M removes the models named M of those applications and the   *)
(* models named M whose own module derives a; no other model is removed;   *)
(* "*" skips discovery and the model imports bind nothing.                 *)
(***************************************************************************)
C4_DenylistByDerivedName ==
    PastModels =>
        IF DontLoadAnyModels(conf) THEN SkippedEntirely
        ELSE DiscoveredSet =
                 KeptDocuments \cup
                 {Dot(am[2].module, am[2].name) :
                     am \in {x \in RegistryModels :
                                /\ get_app_name(x[1].models_module) \notin DontLoad(conf)
                                /\ Dot(get_app_name(x[1].models_module), x[2].name)
                                       \notin DontLoad(conf)
                                /\ Dot(get_app_name(x[2].module), x[2].name)
                                       \notin DontLoad(conf)}}

\* the entry blog.Order has removed the model Order of the application
\* blog, defined in shop.models, and nothing else
C4_Witness ==
    /\ PastModels
    /\ conf.apps = <<PlainApp, BlogOddApp>>
    /\ <<"blog", "Order">> \in DontLoad(conf)
    /\ DiscoveredSet = {<<"blog", "models", "Ghost">>, <<"blog", "models", "Post">>}

(***************************************************************************)
(* C8: in perform_automatic_imports a model that fails to import does not  *)
(* end the pass, with or without traceback: its alias is not bound by it,  *)
(* and every other pair of the map is imported by its full path and bound  *)
(* under its alias.                                                        *)
(***************************************************************************)
\* the pairs of a map in the order the pass takes them
RECURSIVE PairsInOrder(_, _)
PairsInOrder(map, ei) ==
    IF ei > Len(map) THEN <<>>
    ELSE LET pairs == SortByKey(map[ei].items,
                                [i \in 1..Len(map[ei].items) |-> Rank(map[ei].items[i][1])])
         IN  [j \in 1..Len(pairs) |->
                 [path |-> Dot(map[ei].key, pairs[j][1]), alias |-> pairs[j][2]]]
             \o PairsInOrder(map, ei + 1)

\* the object at the path, NoObj when the path cannot be imported
ObjectAt(path) ==
    IF Front(path) \in Modules /\ Resolvable(Front(path), Last(path))
    THEN Resolved(Front(path), Last(path))
    ELSE NoObj

\* bound is what a pass over map has bound
PassComplete(map, bound) ==
    LET ps == PairsInOrder(map, 1)
        good == {i \in 1..Len(ps) : ObjectAt(ps[i].path) # NoObj}
    IN  /\ DOMAIN bound = {ps[i].alias : i \in good}
        /\ \A i \in good :
              (\A j \in good : j > i => ps[j].alias # ps[i].alias)
                  => bound[ps[i].alias] = ObjectAt(ps[i].path)

\* the map the pass of phase k was given
MapOf(k) ==
    IF phases[k].name = "models" THEN resolved
    ELSE IF conf.subclasses_import THEN conf.subclasses ELSE <<>>

C8_FailureDoesNotAbort ==
    ObjectsRunning =>
        /\ \A k \in 1..Len(phases) :
              phases[k].name \in {"subclasses", "models"}
                  => PassComplete(MapOf(k), phases[k].bound)
        /\ pc = "obj_django" =>
              \A x \in DOMAIN phases[3].bound : imported_objects[x] = phases[3].bound[x]

\* with traceback requested, blog.models.Ghost has failed and the models
\* after it, of the same module and of another, are bound
C8_Witness ==
    /\ pc = "obj_django"
    /\ conf.traceback
    /\ Line("traceback", 1) \in Range(sys.out)
    /\ PairsInOrder(resolved, 1) =
          << [path |-> <<"blog", "models", "Ghost">>, alias |-> "Ghost"],
             [path |-> <<"blog", "models", "Post">>, alias |-> "Post"],
             [path |-> <<"shop", "models", "Order">>, alias |-> "Order"] >>
    /\ DOMAIN phases[3].bound = {"Post", "Order"}
    /\ imported_objects["Post"] = [mod |-> <<"blog", "models">>, attr |-> "Post"]
    /\ imported_objects["Order"] = [mod |-> <<"shop", "models">>, attr |-> "Order"]

(***************************************************************************)
(* C5, as claimed: every name of a returned mapping is bound to an object  *)
(* whose import succeeded, and every import that failed is reported.       *)
(***************************************************************************)
\* the objects an import can succeed with: the modules and their attributes
RealObjects ==
    {ModObj(m) : m \in Modules}
      \cup UNION {{[mod |-> m, attr |-> a] : a \in Attrs(m) \cup Dunder} : m \in Modules}

\* every value of the mapping is such an object, of a module that is loaded
OnlyImported(objs, loaded) ==
    \A x \in DOMAIN objs : objs[x] \in RealObjects /\ objs[x].mod \in loaded

\* the mappings of the running call hold imported objects only
MappingsHoldImports ==
    /\ pc \in {"items_loop", "items_raised", "items_returned"}
          => OnlyImported(st.objs, st.loaded)
    /\ ObjectsRunning => /\ OnlyImported(imported_objects, sys.loaded)
                         /\ OnlyImported(imports, sys.loaded)

\* the entries of the resolved map with a model that cannot be imported
FailedEntries ==
    {ei \in 1..Len(resolved) :
        \E j \in 1..Len(resolved[ei].items) :
            ObjectAt(Dot(resolved[ei].key, resolved[ei].items[j][1])) = NoObj}

\* every failure of the call that has returned is among the lines written
FailuresReported ==
    /\ pc = "items_returned" => \A k \in BadDirectives : Reported(k)
    /\ PastModels => \A ei \in FailedEntries : Line("error", ei) \in Range(sys.out)

Unparsable(d) == IsStatement(d) /\ ~Parse(d.toks).ok

Parsable(d) == ~Unparsable(d)

C11_QuietChangesOnlyOutput ==
    ItemsEnded =>
        LET other == import_items(import_directives, {}, ~quiet_load)
            without == import_items(SelectSeq(import_directives, Parsable), {}, quiet_load)
        IN  /\ st.exc = other.exc
            /\ st.objs = other.objs
            /\ st.exc = without.exc
            /\ st.objs = without.objs

====
